---- MODULE Spec2Model ----
(***************************************************************************)
(* Model of tymons/smartula-analysis: the sound feature factory            *)
(* (src/src/utils/feature_factory.py) and the notebook dataset wrappers    *)
(* (src/notebooks/data/melspectrogram_dataset.py,                          *)
(* src/notebooks/utils/periodogram_dataset.py,                             *)
(* src/notebooks/utils/dataset/periodogram_dataset.py).                    *)
(*                                                                         *)
(* Each component has its own specification; a component's variables stay  *)
(* at their idle value under the specifications of the other components.   *)
(*   SpecLoaders  SoundFeatureFactory.build_dataloaders                    *)
(*   SpecFactory  SoundFeatureFactory.build_dataset                        *)
(*   SpecScale    the min-max scaling of one feature array in __getitem__  *)
(*   SpecBins     the periodogram bins of the two periodogram datasets     *)
(*   SpecDataset  __getitem__ and sample of the dataset wrappers, called   *)
(*                by several workers at once                               *)
(***************************************************************************)
EXTENDS Integers, Sequences, FiniteSets, TLC

VARIABLES
    loaders,    \* frame of SoundFeatureFactory.build_dataloaders
    factory,    \* frame of SoundFeatureFactory.build_dataset
    scaler,     \* the min-max scaling lines of __getitem__ on one feature array
    perio,      \* the periodogram lines of the two periodogram datasets
    self,       \* a dataset object: its class and its fields
    workers     \* per worker, the frame of its __getitem__ / sample call

vars == <<loaders, factory, scaler, perio, self, workers>>

\* Python's None.
None == "None"

(***************************************************************************)
(* Generic helpers                                                         *)
(***************************************************************************)

RECURSIVE Pow2(_)
Pow2(k) == IF k = 0 THEN 1 ELSE 2 * Pow2(k - 1)

\* The set of elements of a sequence.
Range(s) == {s[i] : i \in DOMAIN s}

\* Python slice s[a:b] for 0 <= a, 0 <= b.
Slice(s, a, b) ==
    LET stop  == IF b > Len(s) THEN Len(s) ELSE b
        start == IF a > Len(s) THEN Len(s) ELSE a
    IN  IF stop <= start THEN <<>> ELSE [i \in 1..(stop - start) |-> s[start + i]]


Min(a, b) == IF a < b THEN a ELSE b

\* The least and the greatest element of a non-empty set of integers.
SetMin(S) == CHOOSE x \in S : \A y \in S : x <= y
SetMax(S) == CHOOSE x \in S : \A y \in S : x >= y

(***************************************************************************)
(* Arrays. A 1-D array is a sequence, a 2-D array a sequence of rows of     *)
(* one length. A real value is a fraction <<num, den>> with den > 0.        *)
(***************************************************************************)

\* array.reshape(-1): the elements of a 2-D array in row-major order.
RECURSIVE Flatten(_)
Flatten(matrix) ==
    IF matrix = <<>> THEN <<>> ELSE Head(matrix) \o Flatten(Tail(matrix))

\* The shape (rows, columns) of a 2-D array.
Shape(matrix) == <<Len(matrix), IF matrix = <<>> THEN 0 ELSE Len(matrix[1])>>

\* array.reshape(shape) of a 2-D array to another 2-D shape.
Reshape(matrix, shape) ==
    LET flat == Flatten(matrix)
    IN  [i \in 1..shape[1] |-> [j \in 1..shape[2] |-> flat[(i - 1) * shape[2] + j]]]

\* array.T of a 2-D array with at least one row.
Transpose(matrix) ==
    [j \in 1..Len(matrix[1]) |-> [i \in 1..Len(matrix) |-> matrix[i][j]]]

\* x.astype(np.float32) of the real num/den >= 0: the nearest number with a
\* 24-bit significand, ties to even, as a fraction in lowest terms whose
\* denominator is a power of two.
RECURSIVE Significand(_, _, _)
Significand(num, den, k) ==
    IF num * Pow2(k) >= den * Pow2(23) THEN k ELSE Significand(num, den, k + 1)

RECURSIVE Lowest(_, _)
Lowest(num, den) ==
    IF den > 1 /\ num % 2 = 0 THEN Lowest(num \div 2, den \div 2) ELSE <<num, den>>

Float32(num, den) ==
    IF num = 0 THEN <<0, 1>>
    ELSE IF num % den = 0 THEN <<num \div den, 1>>
    ELSE LET k == Significand(num, den, 0)
             q == (num * Pow2(k)) \div den
             r == (num * Pow2(k)) % den
             m == IF 2 * r > den \/ (2 * r = den /\ q % 2 = 1) THEN q + 1 ELSE q
         IN  Lowest(m, Pow2(k))

\* sklearn MinMaxScaler().fit_transform(X) for X of shape (n_samples,
\* n_features) with n_samples > 0: every column is rescaled by its own minimum
\* and range, X * scale_ + min_ with scale_ = 1 / range (1 for a zero range).
FitTransform(X) ==
    LET column(j) == {X[i][j] : i \in 1..Len(X)}
    IN  [i \in 1..Len(X) |-> [j \in 1..Len(X[1]) |->
            LET data_min   == SetMin(column(j))
                data_range == SetMax(column(j)) - data_min
            IN  IF data_range = 0 THEN <<X[i][j] - data_min, 1>>
                ELSE <<X[i][j] - data_min, data_range>>]]

\* array.astype(np.float32) of a 2-D array of fractions.
AsFloat32(matrix) ==
    [i \in 1..Len(matrix) |-> [j \in 1..Len(matrix[i]) |->
        Float32(matrix[i][j][1], matrix[i][j][2])]]

(***************************************************************************)
(* SoundFeatureFactory.build_dataloaders                                   *)
(***************************************************************************)

\* Every order of a dataset of at most MaxLen items is explored.
MaxLen == 4
\* Longer datasets explored, in a few orders each.
LongLens == {100, 1000}
\* The ratios explored are the floats k / RatioDen, k in 0..RatioDen; the
\* default ratio=0.15 is 15 / 100.
RatioDen == 100
Ratios == {<<k, RatioDen>> : k \in 0..RatioDen}
\* Batch sizes explored.
MaxBatch == 2

\* A natural number too wide for one integer of the model is the sequence of
\* its digits in base 2^15, least significant first, without leading zeros
\* (<<>> is 0). The small operands below are less than 2^14.
Base == Pow2(15)

RECURSIVE Normalize(_)
Normalize(a) ==
    IF a # <<>> /\ a[Len(a)] = 0 THEN Normalize(SubSeq(a, 1, Len(a) - 1)) ELSE a

\* a * k + carry.
RECURSIVE MulSmall(_, _, _)
MulSmall(a, k, carry) ==
    IF a = <<>>
    THEN IF carry = 0 THEN <<>> ELSE <<carry % Base>> \o MulSmall(<<>>, k, carry \div Base)
    ELSE LET t == Head(a) * k + carry
         IN  <<t % Base>> \o MulSmall(Tail(a), k, t \div Base)

\* <<a \div k, a % k>>, the quotient with leading zeros.
RECURSIVE DivMod(_, _)
DivMod(a, k) ==
    IF a = <<>> THEN <<<<>>, 0>>
    ELSE LET high == DivMod(Tail(a), k)
             t    == high[2] * Base + Head(a)
         IN  <<(<<t \div k>>) \o high[1], t % k>>

\* The number of binary digits of a small number, and of a wide one.
RECURSIVE Bits(_)
Bits(x) == IF x = 0 THEN 0 ELSE 1 + Bits(x \div 2)

BitLength(a) == IF a = <<>> THEN 0 ELSE 15 * (Len(a) - 1) + Bits(a[Len(a)])

\* a * 2^k, and a \div 2^k.
ShiftLeft(a, k) ==
    Normalize([i \in 1..(k \div 15) |-> 0] \o MulSmall(a, Pow2(k % 15), 0))

ShiftRight(a, k) ==
    Normalize(DivMod(Slice(a, k \div 15, Len(a)), Pow2(k % 15))[1])

\* A wide number that fits one integer of the model.
RECURSIVE ToInt(_)
ToInt(a) == IF a = <<>> THEN 0 ELSE Head(a) + Base * ToInt(Tail(a))

\* a / k rounded to the nearest integer, ties to even (the rounding of every
\* binary64 operation).
RoundDiv(a, k) ==
    LET qr == DivMod(a, k)
        q  == Normalize(qr[1])
        up == 2 * qr[2] > k \/ (2 * qr[2] = k /\ q # <<>> /\ q[1] % 2 = 1)
    IN  IF up THEN MulSmall(q, 1, 1) ELSE q

\* A non-negative binary64 value is [m, e], the number m / 2^e.
\* The float num / den for 0 <= num <= den: the quotient rounded to a 53-bit
\* significand, which is also the float its decimal literal denotes (0.15 for
\* 15 / 100, 0.29 for 29 / 100).
Binary64(num, den) ==
    IF num = 0 THEN [m |-> <<>>, e |-> 0]
    ELSE LET wide == ShiftLeft(MulSmall(<<>>, 1, num), 52)
             e    == 52 + 53 - BitLength(Normalize(DivMod(wide, den)[1]))
         IN  [m |-> RoundDiv(ShiftLeft(MulSmall(<<>>, 1, num), e), den), e |-> e]

\* len * x of an int and a float: the int becomes a float, exactly, and the
\* product is rounded to a 53-bit significand.
Binary64Mul(len, x) ==
    LET product == MulSmall(x.m, len, 0)
        excess  == IF BitLength(product) > 53 THEN BitLength(product) - 53 ELSE 0
    IN  [m |-> RoundDiv(product, Pow2(excess)), e |-> x.e - excess]

\* int(x) of a float x >= 0: the digits after the point are dropped.
Trunc(x) == ToInt(ShiftRight(x.m, x.e))

\* val_amount = int(dataset.__len__() * ratio), ratio the float num / den.
ValAmount(len, ratio) == Trunc(Binary64Mul(len, Binary64(ratio[1], ratio[2])))

\* All orders of 0..n-1, the values torch.randperm(n) can return.
Randperm(n) ==
    {p \in [1..n -> 0..(n - 1)] : \A i, j \in 1..n : i # j => p[i] # p[j]}

\* The orders explored of a dataset of n items: all of them up to MaxLen
\* items; of a longer one the ascending order, the descending order, and the
\* ascending order moved round by the validation amount of the default ratio.
Orders(n) ==
    IF n <= MaxLen THEN Randperm(n)
    ELSE {[i \in 1..n |-> i - 1],
          [i \in 1..n |-> n - i],
          [i \in 1..n |-> (i - 1 + (15 * n) \div 100) % n]}

\* torch.utils.data.random_split(dataset, lengths) for a given permutation:
\* consecutive runs of the permutation, one per length.
RandomSplit(perm, lengths) ==
    <<Slice(perm, 0, lengths[1]), Slice(perm, lengths[1], lengths[1] + lengths[2])>>

\* DataLoader(subset, batch_size, shuffle=True, drop_last=True, num_workers).
DataLoader(subset, batch_size, num_workers) ==
    [dataset |-> subset, batch_size |-> batch_size, shuffle |-> TRUE,
     drop_last |-> TRUE, num_workers |-> num_workers]

\* Outcomes of building a shuffling loader: over an empty subset the sampler of
\* some torch releases raises ValueError, others build an empty loader.
LoaderErrors(subset) == IF Len(subset) = 0 THEN {None, "ValueError"} ELSE {None}

LoadersIdle == [pc |-> "idle"]
FactoryIdle == [pc |-> "idle"]
ScalerIdle == [pc |-> "idle"]
PerioIdle == [pc |-> "idle"]
DatasetIdle == [cls |-> "none"]
WorkersIdle == <<>>

LoadersInit ==
    /\ \E len \in (0..MaxLen) \cup LongLens :
        loaders = [pc |-> "start", dataset_len |-> len]
    /\ factory = FactoryIdle
    /\ scaler = ScalerIdle
    /\ perio = PerioIdle
    /\ self = DatasetIdle
    /\ workers = WorkersIdle

\* One call build_dataloaders(dataset, batch_size, ratio, num_workers=4).
BuildDataloaders ==
    /\ loaders.pc = "start"
    /\ \E batch_size \in 1..MaxBatch, ratio \in Ratios :
        LET len        == loaders.dataset_len
            val_amount == ValAmount(len, ratio)
        IN  \E perm \in Orders(len) :
            LET split     == RandomSplit(perm, <<len - val_amount, val_amount>>)
                train_set == split[1]
                val_set   == split[2]
            IN  \E e1 \in LoaderErrors(train_set), e2 \in LoaderErrors(val_set) :
                  loaders' =
                    [pc |-> "done", dataset_len |-> len, batch_size |-> batch_size,
                     ratio |-> ratio, val_amount |-> val_amount,
                     train_set |-> train_set, val_set |-> val_set,
                     err |-> IF e1 # None THEN e1 ELSE e2,
                     returned |-> IF e1 = None /\ e2 = None
                                  THEN <<DataLoader(train_set, batch_size, 4),
                                         DataLoader(val_set, batch_size, 4)>>
                                  ELSE <<>>]
    /\ UNCHANGED <<factory, scaler, perio, self, workers>>

LoadersNext == BuildDataloaders

SpecLoaders == LoadersInit /\ [][LoadersNext]_vars

\* C1: after build_dataloaders on a dataset of N items with a ratio in [0,1],
\* the validation subset has exactly floor(ratio*N) indices, the train subset
\* has the other N - floor(ratio*N), no index is in both or repeated, and
\* every index 0..N-1 is in one of them.
C1_SplitPartition ==
    loaders.pc = "done" =>
        LET n == loaders.dataset_len
            t == loaders.train_set
            v == loaders.val_set
            floor == (loaders.ratio[1] * n) \div loaders.ratio[2]
        IN  /\ Len(v) = floor
            /\ Len(t) = n - floor
            /\ Range(t) \cap Range(v) = {}
            /\ Range(t) \cup Range(v) = 0..(n - 1)
            /\ Cardinality(Range(t)) = Len(t)
            /\ Cardinality(Range(v)) = Len(v)

(***************************************************************************)
(* SoundFeatureFactory.build_dataset                                       *)
(***************************************************************************)

\* class SoundFeatureType(Enum): the members, by name and value.
SoundFeatureType ==
    {[name |-> "SPECTROGRAM",    value |-> "spectrogram"],
     [name |-> "MELSPECTROGRAM", value |-> "melspectrogram"],
     [name |-> "PERIODOGRAM",    value |-> "periodogram"],
     [name |-> "MFCC",           value |-> "mfcc"],
     [name |-> "BIOINDICIES",    value |-> "indicies"]}

\* Selectors of another enumeration, which build_dataset accepts as well: it
\* reads only input_type.value.
ForeignSelectors ==
    {[name |-> "CHROMA", value |-> "chroma"],
     [name |-> "INDICES", value |-> "indices"],
     [name |-> "MFCC_UPPER", value |-> "MFCC"]}

\* str.lower() on the selector values in use.
Lower(str) == IF str = "MFCC" THEN "mfcc" ELSE str

\* f'_get_{input_type.value.lower()}_dataset'
MethodNameNoPrefix(input_type) == "get_" \o Lower(input_type.value) \o "_dataset"
MethodName(input_type) == "_get_" \o Lower(input_type.value) \o "_dataset"

\* The attributes of class SoundFeatureFactory.
ClassAttributes ==
    {"_get_spectrogram_dataset", "_get_melspectrogram_dataset",
     "_get_periodogram_dataset", "_get_mfcc_dataset", "_get_indicies_dataset",
     "build_dataset", "build_dataloaders"}

\* dict.get(key, default)
DictGet(dict, key, default) == IF key \in DOMAIN dict THEN dict[key] ELSE default

\* (4096//3)+30, the default hop length of the three spectral datasets.
HopLenDefaultCeil == ((4096 + 2) \div 3) + 30
HopLenDefault == (4096 \div 3) + 30

\* A constructed dataset object: its class and constructor arguments.
NewDataset(cls, filenames, labels, kwargs) ==
    [cls |-> cls, filenames |-> filenames, labels |-> labels, kwargs |-> kwargs,
     err |-> None]

_get_spectrogram_dataset(sound_filenames, labels, features_params_dict) ==
    NewDataset("SpectrogramDataset", sound_filenames, labels,
        [nfft     |-> DictGet(features_params_dict, "nfft", 4096),
         hop_len  |-> DictGet(features_params_dict, "hop_len", HopLenDefault),
         scale    |-> DictGet(features_params_dict, "scale", TRUE),
         fmax     |-> DictGet(features_params_dict, "fmax", 2750),
         truncate_power_two |-> TRUE])

_get_melspectrogram_dataset(sound_filenames, labels, features_params_dict) ==
    NewDataset("MelSpectrogramDataset", sound_filenames, labels,
        [nfft     |-> DictGet(features_params_dict, "nfft", 4096),
         hop_len  |-> DictGet(features_params_dict, "hop_len", HopLenDefault),
         scale    |-> DictGet(features_params_dict, "scale", TRUE),
         mels     |-> DictGet(features_params_dict, "mels", 64),
         truncate_power_two |-> TRUE])

_get_periodogram_dataset(sound_filenames, labels, features_params_dict) ==
    NewDataset("PeriodogramDataset", sound_filenames, labels,
        [scale_db   |-> DictGet(features_params_dict, "scale_db", FALSE),
         scale      |-> DictGet(features_params_dict, "scale", TRUE),
         slice_freq |-> <<DictGet(features_params_dict, "slice_frequency_start", 0),
                          DictGet(features_params_dict, "slice_frequency_stop", 2048)>>])

_get_mfcc_dataset(sound_filenames, labels, features_params_dict) ==
    NewDataset("MfccDataset", sound_filenames, labels,
        [nfft     |-> DictGet(features_params_dict, "nfft", 4096),
         hop_len  |-> DictGet(features_params_dict, "hop_len", HopLenDefault),
         scale    |-> DictGet(features_params_dict, "scale", TRUE),
         mels     |-> DictGet(features_params_dict, "mels", 64)])

\* SoundIndiciesDataset.SoundIndicator: the values of the indicator enumeration.
SoundIndicator == {"aci"}

_get_indicies_dataset(sound_filenames, labels, features_params_dict) ==
    LET sound_indicies_params == DictGet(features_params_dict, "sound_indicies", <<>>)
        indicator_type == DictGet(sound_indicies_params, "type", "aci")
        config == DictGet(sound_indicies_params, "config", [j_samples |-> 512])
    IN  IF indicator_type \in SoundIndicator
        THEN NewDataset("SoundIndiciesDataset", sound_filenames, labels,
                 [indicator |-> indicator_type, config |-> config])
        ELSE [err |-> "ValueError"]

\* getattr(cls, method_name, lambda: 'invalid dataset') applied to the three
\* arguments: the fallback takes no argument, so calling it raises TypeError.
CallFunction(method_name, filenames, labels, features_params_dict) ==
    CASE method_name = "_get_spectrogram_dataset" ->
            _get_spectrogram_dataset(filenames, labels, features_params_dict)
      [] method_name = "_get_melspectrogram_dataset" ->
            _get_melspectrogram_dataset(filenames, labels, features_params_dict)
      [] method_name = "_get_periodogram_dataset" ->
            _get_periodogram_dataset(filenames, labels, features_params_dict)
      [] method_name = "_get_mfcc_dataset" ->
            _get_mfcc_dataset(filenames, labels, features_params_dict)
      [] method_name = "_get_indicies_dataset" ->
            _get_indicies_dataset(filenames, labels, features_params_dict)
      [] OTHER -> [err |-> "TypeError"]

\* Truth value of a list argument.
Truthy(list) == Len(list) > 0

\* if background_filenames and background_labels:
WantsBackgroundEither(background_filenames, background_labels) ==
    Truthy(background_filenames) \/ Truthy(background_labels)
WantsBackground(background_filenames, background_labels) ==
    Truthy(background_filenames) /\ Truthy(background_labels)

\* DoubleFeatureDataset(dataset, background)
DoubleFeatureDataset(dataset, background) ==
    [cls |-> "DoubleFeatureDataset", target |-> dataset, background |-> background,
     err |-> None]

\* dataset.get_params(): the parameters the dataset was built with.
GetParams(dataset) ==
    IF dataset.cls = "DoubleFeatureDataset" THEN dataset.target.kwargs
    ELSE dataset.kwargs

\* {f"FEATURE_{key}": val for key, val in dataset.get_params().items()}
FeatureParamsDict(params) ==
    [fkey \in {"FEATURE_" \o key : key \in DOMAIN params} |->
        params[CHOOSE key \in DOMAIN params : "FEATURE_" \o key = fkey]]

\* The parameter dictionaries explored: any subset of the recognised keys
\* (and one unrecognised key), each present key with a non-default value.
PlainValues ==
    [nfft |-> 2048, hop_len |-> 512, fmax |-> 4000, mels |-> 32, scale |-> FALSE,
     scale_db |-> TRUE, slice_frequency_start |-> 100,
     slice_frequency_stop |-> 1024, window |-> "hann"]

SoundIndiciesValues ==
    {<<>>, [type |-> "aci"], [type |-> "no_such_index"], [config |-> [j_samples |-> 256]],
     [type |-> "aci", config |-> [j_samples |-> 256]]}

DictUpdate(dict, key, val) ==
    [k \in DOMAIN dict \cup {key} |-> IF k = key THEN val ELSE dict[k]]

ParamDicts ==
    LET plain == {[k \in keys |-> PlainValues[k]] : keys \in SUBSET DOMAIN PlainValues}
    IN  plain \cup
        {DictUpdate(d, "sound_indicies", si) : d \in {<<>>, [nfft |-> 2048]},
                                               si \in SoundIndiciesValues}

SoundFilenames == <<"data/A_2020/s1.wav", "data/B_2020/s2.wav">>
Labels == <<"A", "B">>
BackgroundFilenames == {<<>>, <<"noise/N_2020/n1.wav">>}
BackgroundLabels == {<<>>, <<"N">>}

FactoryInit ==
    /\ \E input_type \in SoundFeatureType \cup ForeignSelectors,
          features_params_dict \in ParamDicts,
          background_filenames \in BackgroundFilenames,
          background_labels \in BackgroundLabels :
        factory = [pc |-> "start", input_type |-> input_type,
                   sound_filenames |-> SoundFilenames, labels |-> Labels,
                   features_params_dict |-> features_params_dict,
                   background_filenames |-> background_filenames,
                   background_labels |-> background_labels]
    /\ loaders = LoadersIdle
    /\ scaler = ScalerIdle
    /\ perio = PerioIdle
    /\ self = DatasetIdle
    /\ workers = WorkersIdle

\* One call build_dataset(input_type, sound_filenames, labels,
\* features_params_dict, background_filenames, background_labels).
BuildDataset ==
    /\ factory.pc = "start"
    /\ LET method_name == MethodName(factory.input_type)
           function    == IF method_name \in ClassAttributes
                          THEN method_name ELSE "lambda"
           dataset     == CallFunction(function, factory.sound_filenames,
                              factory.labels, factory.features_params_dict)
           wants       == WantsBackground(factory.background_filenames,
                                          factory.background_labels)
           background  == CallFunction(function, factory.background_filenames,
                              factory.background_labels, factory.features_params_dict)
           err         == IF dataset.err # None THEN dataset.err
                          ELSE IF wants THEN background.err ELSE None
           result      == IF wants THEN DoubleFeatureDataset(dataset, background)
                          ELSE dataset
       IN  factory' =
             [factory EXCEPT !.pc = "done"] @@
             [function |-> function, err |-> err,
              calls |-> IF dataset.err = None /\ wants THEN 2 ELSE 1,
              returned |-> IF err = None
                           THEN <<result, FeatureParamsDict(GetParams(result))>>
                           ELSE <<>>]
    /\ UNCHANGED <<loaders, scaler, perio, self, workers>>

FactoryNext == BuildDataset

SpecFactory == FactoryInit /\ [][FactoryNext]_vars

\* The foreground dataset of a returned dataset.
Foreground(dataset) ==
    IF dataset.cls = "DoubleFeatureDataset" THEN dataset.target ELSE dataset

\* C4: every member of SoundFeatureType resolves to its own constructor
\* _get_<value>_dataset, whose dataset class is the one returned, and a selector
\* whose value names no constructor makes build_dataset fail (the call of the
\* fallback raises TypeError) without returning a dataset.
C4_DispatchTotal ==
    factory.pc = "done" =>
        LET own == [SPECTROGRAM    |-> <<"_get_spectrogram_dataset", "SpectrogramDataset">>,
                    MELSPECTROGRAM |-> <<"_get_melspectrogram_dataset", "MelSpectrogramDataset">>,
                    PERIODOGRAM    |-> <<"_get_periodogram_dataset", "PeriodogramDataset">>,
                    MFCC           |-> <<"_get_mfcc_dataset", "MfccDataset">>,
                    BIOINDICIES    |-> <<"_get_indicies_dataset", "SoundIndiciesDataset">>]
            type == factory.input_type
        IN  /\ type \in SoundFeatureType =>
                /\ factory.function = own[type.name][1]
                /\ factory.err = None =>
                      Foreground(factory.returned[1]).cls = own[type.name][2]
            /\ type.value \in {"chroma", "indices"} =>
                /\ factory.err = "TypeError"
                /\ factory.returned = <<>>

\* A selector outside the enumeration has failed at construction.
C4_Witness ==
    /\ factory.pc = "done"
    /\ factory.input_type.value = "chroma"
    /\ factory.function = "lambda"
    /\ factory.err = "TypeError"

\* C5: build_dataset returns a DoubleFeatureDataset, whose background is built
\* by the same constructor from the background filenames and labels with the
\* same parameters, exactly when both background lists are non-empty;
\* otherwise it returns the foreground dataset alone after a single
\* constructor call.
C5_DoubleIffBothBackground ==
    factory.pc = "done" /\ factory.err = None =>
        LET ds   == factory.returned[1]
            both == factory.background_filenames # <<>> /\ factory.background_labels # <<>>
        IN  /\ both =>
                /\ ds.cls = "DoubleFeatureDataset"
                /\ ds.target.filenames = factory.sound_filenames
                /\ ds.target.labels = factory.labels
                /\ ds.background.filenames = factory.background_filenames
                /\ ds.background.labels = factory.background_labels
                /\ ds.background.cls = ds.target.cls
                /\ ds.background.kwargs = ds.target.kwargs
                /\ factory.calls = 2
            /\ ~both =>
                /\ ds.cls # "DoubleFeatureDataset"
                /\ ds.filenames = factory.sound_filenames
                /\ ds.labels = factory.labels
                /\ factory.calls = 1

\* Only the background filenames were supplied and a single dataset came back.
C5_Witness ==
    /\ factory.pc = "done"
    /\ factory.err = None
    /\ factory.background_filenames # <<>>
    /\ factory.background_labels = <<>>
    /\ factory.returned[1].cls = "PeriodogramDataset"

\* The defaults of every feature type, with the given default hop length:
\* each key missing from the parameter dictionary takes its default in the
\* constructed dataset (foreground and background alike).
DefaultsApplied(hop_len) ==
    factory.pc = "done" /\ factory.err = None /\ factory.input_type \in SoundFeatureType =>
        LET d    == factory.features_params_dict
            ret  == factory.returned[1]
            all  == IF ret.cls = "DoubleFeatureDataset"
                    THEN {ret.target, ret.background} ELSE {ret}
            type == factory.input_type.value
            si   == IF "sound_indicies" \in DOMAIN d THEN d.sound_indicies ELSE <<>>
            Missing(key) == key \notin DOMAIN d
        IN  \A ds \in all :
            /\ type \in {"spectrogram", "melspectrogram", "mfcc"} =>
                /\ Missing("nfft") => ds.kwargs.nfft = 4096
                /\ Missing("hop_len") => ds.kwargs.hop_len = hop_len
            /\ type = "spectrogram" =>
                (Missing("fmax") => ds.kwargs.fmax = 2750)
            /\ type \in {"melspectrogram", "mfcc"} =>
                (Missing("mels") => ds.kwargs.mels = 64)
            /\ type = "periodogram" =>
                /\ Missing("slice_frequency_start") => ds.kwargs.slice_freq[1] = 0
                /\ Missing("slice_frequency_stop") => ds.kwargs.slice_freq[2] = 2048
                /\ Missing("scale_db") => ds.kwargs.scale_db = FALSE
            /\ type \in {"spectrogram", "melspectrogram", "mfcc", "periodogram"} =>
                (Missing("scale") => ds.kwargs.scale = TRUE)
            /\ type = "indicies" =>
                /\ "type" \notin DOMAIN si => ds.kwargs.indicator = "aci"
                /\ "config" \notin DOMAIN si => ds.kwargs.config = [j_samples |-> 512]

\* C6 as stated: the documented defaults, with hop_len = 1396.
C6_DocumentedDefaults == DefaultsApplied(1396)

\* C6 as amended: the same defaults, with hop_len = 1395 = (4096 // 3) + 30.
C6_CodeDefaults == DefaultsApplied(1395)

\* A melspectrogram dataset built from an empty parameter dictionary.
C6_Witness ==
    /\ factory.pc = "done"
    /\ factory.err = None
    /\ factory.input_type.value = "melspectrogram"
    /\ factory.features_params_dict = <<>>
    /\ factory.returned[1].cls = "MelSpectrogramDataset"
    /\ factory.returned[1].kwargs.hop_len = 1395
    /\ factory.returned[2].FEATURE_mels = 64

(***************************************************************************)
(* Min-max scaling in __getitem__                                          *)
(*   melspectrogram_dataset.py lines 45-47, periodogram_dataset.py 32-33   *)
(***************************************************************************)

\* Array values are 0..MaxAmp; arrays have up to MaxCells elements.
MaxAmp == 3
MaxCells == 4

\* mel.reshape(-1, 1): one column holding every element.
MelColumnKeepShape(mel) == mel
MelColumn(mel) == Reshape(mel, <<Len(mel) * Len(mel[1]), 1>>)

\* Lines 45-47 of MelSpectrogramDataset.__getitem__:
\* MinMaxScaler().fit_transform(mel.reshape(-1, 1)).reshape((1, *initial_shape))
\* then astype(np.float32). The result has shape (1, rows, columns).
MelScale(mel) ==
    LET initial_shape == Shape(mel)
    IN  <<AsFloat32(Reshape(FitTransform(MelColumn(mel)), initial_shape))>>

\* Lines 32-33 of PeriodogramDataset.__getitem__:
\* MinMaxScaler().fit_transform(periodogram.reshape(-1, 1)).T then
\* astype(np.float32). The result has shape (1, bins); an empty periodogram
\* makes fit_transform raise ValueError.
PeriodogramScale(periodogram) ==
    IF periodogram = <<>> THEN [err |-> "ValueError", array |-> <<>>]
    ELSE [err |-> None,
          array |-> AsFloat32(Transpose(FitTransform(
                        Reshape(<<periodogram>>, <<Len(periodogram), 1>>))))]

Matrices ==
    UNION {[1..shape[1] -> [1..shape[2] -> 0..MaxAmp]] :
              shape \in {sh \in (1..MaxCells) \X (1..MaxCells) : sh[1] * sh[2] <= MaxCells}}
Vectors == UNION {[1..n -> 0..MaxAmp] : n \in 0..MaxCells}

ScaleInit ==
    /\ scaler \in {[pc |-> "mel", input |-> m] : m \in Matrices}
                  \cup {[pc |-> "periodogram", input |-> v] : v \in Vectors}
    /\ loaders = LoadersIdle
    /\ factory = FactoryIdle
    /\ perio = PerioIdle
    /\ self = DatasetIdle
    /\ workers = WorkersIdle

ScaleMel ==
    /\ scaler.pc = "mel"
    /\ scaler' = [pc |-> "done", kind |-> "mel", input |-> scaler.input,
                  err |-> None, output |-> MelScale(scaler.input)]
    /\ UNCHANGED <<loaders, factory, perio, self, workers>>

ScalePeriodogram ==
    /\ scaler.pc = "periodogram"
    /\ LET scaled == PeriodogramScale(scaler.input)
       IN  scaler' = [pc |-> "done", kind |-> "periodogram", input |-> scaler.input,
                      err |-> scaled.err, output |-> scaled.array]
    /\ UNCHANGED <<loaders, factory, perio, self, workers>>

ScaleNext == ScaleMel \/ ScalePeriodogram

SpecScale == ScaleInit /\ [][ScaleNext]_vars

\* Order of two float32 values in [0,1], each a fraction in lowest terms over
\* a power of two.
Leq32(x, y) ==
    IF x[2] >= y[2] THEN x[1] <= y[1] * (x[2] \div y[2])
    ELSE x[1] * (y[2] \div x[2]) <= y[1]

MaxRate == 16

\* abs(fft(sound_samples, n)): n bins; bins k and n-k of a real signal have
\* one magnitude.
AbsFft(spectrum, n) == [i \in 1..n |-> spectrum[Min(i - 1, n - (i - 1)) + 1]]

\* abs(np.fft.rfft(sound_samples, n)): the n//2 + 1 bins 0..n//2.
AbsRfft(spectrum, n) == [i \in 1..(n \div 2 + 1) |-> spectrum[i]]

\* 20*np.log10(periodogram / full_scale): every magnitude on the decibel scale.
Decibel(periodogram) == [i \in 1..Len(periodogram) |-> <<"dB", periodogram[i]>>]

\* periodogram_dataset.py (scipy fft) lines 28-31; slice_freq is <<>> for None.
PeriodogramFft(spectrum, sample_rate, slice_freq) ==
    LET periodogram == AbsFft(spectrum, sample_rate)
        one_sided   == Slice(periodogram, 1, Len(periodogram) \div 2)
    IN  IF slice_freq # <<>> THEN Slice(one_sided, slice_freq[1], slice_freq[2])
        ELSE one_sided

\* dataset/periodogram_dataset.py (rfft) lines 31-38.
PeriodogramRfftKeepDc(spectrum, sampling_rate, scale_db, slice_freq) ==
    LET rfft        == AbsRfft(spectrum, sampling_rate)
        periodogram == IF scale_db THEN Decibel(rfft) ELSE rfft
    IN  IF slice_freq # <<>> THEN Slice(periodogram, slice_freq[1], slice_freq[2])
        ELSE periodogram
PeriodogramRfft(spectrum, sampling_rate, scale_db, slice_freq) ==
    LET rfft        == AbsRfft(spectrum, sampling_rate)
        one_sided   == Slice(rfft, 1, Len(rfft))
        periodogram == IF scale_db THEN Decibel(one_sided) ELSE one_sided
    IN  IF slice_freq # <<>> THEN Slice(periodogram, slice_freq[1], slice_freq[2])
        ELSE periodogram

\* np.fft.rfftfreq(n, d=1/n): the frequencies 0..n//2 of the bins.
Rfftfreq(n) == [i \in 1..(n \div 2 + 1) |-> i - 1]

SampleRates == (1..MaxRate) \cup {16000}
SliceFreqs == {<<>>, <<0, 2048>>, <<2, 5>>}

\* The recording's spectrum is taken to be its own frequency axis, so that
\* the periodogram shows which bins are kept.
BinsInit ==
    /\ \E sample_rate \in SampleRates, slice_freq \in SliceFreqs :
        perio = [pc |-> "start", sample_rate |-> sample_rate,
                 slice_freq |-> slice_freq]
    /\ loaders = LoadersIdle
    /\ factory = FactoryIdle
    /\ scaler = ScalerIdle
    /\ self = DatasetIdle
    /\ workers = WorkersIdle

BinsFft ==
    /\ perio.pc = "start"
    /\ perio' = [perio EXCEPT !.pc = "done"] @@
                [impl |-> "fft", scale_db |-> FALSE,
                 periodogram |-> PeriodogramFft(Rfftfreq(perio.sample_rate),
                                     perio.sample_rate, perio.slice_freq)]
    /\ UNCHANGED <<loaders, factory, scaler, self, workers>>

BinsRfft ==
    /\ perio.pc = "start"
    /\ \E scale_db \in BOOLEAN :
        perio' = [perio EXCEPT !.pc = "done"] @@
                 [impl |-> "rfft", scale_db |-> scale_db,
                  periodogram |-> PeriodogramRfft(Rfftfreq(perio.sample_rate),
                                      perio.sample_rate, scale_db, perio.slice_freq)]
    /\ UNCHANGED <<loaders, factory, scaler, self, workers>>

BinsNext == BinsFft \/ BinsRfft

SpecBins == BinsInit /\ [][BinsNext]_vars

\* The bin count of an unsliced periodogram at an even sample rate, for the
\* scipy-fft dataset and for the rfft dataset; the first bin kept is 1 Hz.
BinCounts(fft_bins, rfft_bins) ==
    perio.pc = "done" /\ perio.slice_freq = <<>> /\ perio.sample_rate % 2 = 0 =>
        LET half == perio.sample_rate \div 2
        IN  /\ perio.impl = "fft" => Len(perio.periodogram) = half + fft_bins
            /\ perio.impl = "rfft" => Len(perio.periodogram) = half + rfft_bins
            /\ perio.periodogram # <<>> /\ ~perio.scale_db => perio.periodogram[1] = 1

\* C7 as stated: fs/2 - 1 bins in both implementations (7999 at 16000).
C7_BinsAsStated == BinCounts(-1, -1)

\* C7 as amended: fs/2 - 1 bins in the scipy-fft dataset (7999 at 16000) and
\* fs/2 bins in the rfft dataset (8000 at 16000), which keeps the Nyquist bin.
C7_BinsPerImplementation == BinCounts(-1, 0)

\* The rfft dataset at 16000 Hz without slicing.
C7_Witness ==
    /\ perio.pc = "done"
    /\ perio.impl = "rfft"
    /\ perio.sample_rate = 16000
    /\ perio.slice_freq = <<>>
    /\ ~perio.scale_db
    /\ Len(perio.periodogram) = 8000
    /\ perio.periodogram[8000] = 8000

(***************************************************************************)
(* Dataset wrappers                                                        *)
(*   MelSpectrogramDataset   notebooks/data/melspectrogram_dataset.py      *)
(*   PeriodogramDataset      notebooks/utils/periodogram_dataset.py        *)
(*   PeriodogramDataset      notebooks/utils/dataset/periodogram_dataset.py*)
(* A string that the code takes apart is a sequence of characters.         *)
(***************************************************************************)

\* Number of workers calling into one dataset.
NumWorkers == 2
\* random.uniform(0, n) is one of the floats k * n / UniformSteps, 0 <= k < UniformSteps.
UniformSteps == 2

Mel  == "data.MelSpectrogramDataset"
Fft  == "utils.PeriodogramDataset"
Rfft == "utils.dataset.PeriodogramDataset"

\* str.split(sep)
RECURSIVE Split(_, _)
Split(str, sep) ==
    IF \E i \in 1..Len(str) : str[i] = sep
    THEN LET i == CHOOSE i \in 1..Len(str) :
                    str[i] = sep /\ \A j \in 1..(i - 1) : str[j] # sep
         IN  <<SubSeq(str, 1, i - 1)>> \o Split(SubSeq(str, i + 1, Len(str)), sep)
    ELSE <<str>>

\* The recordings: d/A_1/x, d/B/y, d/C_1/z, d/A_2/u (not on disk) and w (a
\* path without directory).
PathA1 == <<"d", "/", "A", "_", "1", "/", "x">>
PathB  == <<"d", "/", "B", "/", "y">>
PathC  == <<"d", "/", "C", "_", "1", "/", "z">>
PathA2 == <<"d", "/", "A", "_", "2", "/", "u">>
PathW  == <<"w">>

\* The files on disk: path -> sample rate, spectrum (magnitudes at 0..rate/2)
\* and mel spectrogram in decibels (mels rows) of the recording.
Disk ==
    (PathA1 :> [sample_rate |-> 4, spectrum |-> <<3, 1, 2>>,
                mel_db |-> <<<<0, 2>>, <<1, 2>>>>]) @@
    (PathB  :> [sample_rate |-> 6, spectrum |-> <<0, 2, 2, 5>>,
                mel_db |-> <<<<1, 1>>, <<1, 1>>>>]) @@
    (PathC  :> [sample_rate |-> 4, spectrum |-> <<1, 1, 1>>,
                mel_db |-> <<<<3, 0>>, <<0, 1>>>>]) @@
    (PathW  :> [sample_rate |-> 2, spectrum |-> <<1, 2>>,
                mel_db |-> <<<<0, 1>>, <<2, 3>>>>])

\* wavfile.read(filename): the recording, or FileNotFoundError.
WavfileRead(filename) ==
    IF filename \in DOMAIN Disk THEN [err |-> None, wav |-> Disk[filename]]
    ELSE [err |-> "FileNotFoundError", wav |-> <<>>]

\* Python values passed as an index: an int, a float or None.
PyInt(i) == [type |-> "int", val |-> i]
PyFloat(k) == [type |-> "float", val |-> k]
PyNone == [type |-> "NoneType", val |-> 0]

\* `not idx`
Not(idx) == idx.type = "NoneType" \/ idx.val = 0

\* random.uniform(0, len(self.files)): always a float.
RandomUniform(len) == {PyFloat(k * len) : k \in 0..(UniformSteps - 1)}

\* The frame of a worker outside any call, and at the start of __getitem__(idx).
IdleFrame ==
    [pc |-> "idle", call |-> "", arg |-> PyNone, idx |-> PyNone,
     filename |-> <<>>, label |-> -1, ret |-> <<>>, err |-> None]
NewFrame(call, arg, idx) ==
    [IdleFrame EXCEPT !.pc = "index", !.call = call, !.arg = arg, !.idx = idx]

Raise(frame, err) == [frame EXCEPT !.pc = "done", !.err = err]

\* filename = self.files[idx]; wavfile.read(filename)  (idx >= 0 when an int)
IndexStep(ds, frame) ==
    IF frame.idx.type # "int" THEN Raise(frame, "TypeError")
    ELSE IF frame.idx.val >= Len(ds.files) THEN Raise(frame, "IndexError")
    ELSE LET filename == ds.files[frame.idx.val + 1]
             read     == WavfileRead(filename)
         IN  IF read.err # None
             THEN Raise([frame EXCEPT !.filename = filename], read.err)
             ELSE [frame EXCEPT !.pc = "label", !.filename = filename]

\* filename.split(os.sep)[-2].split("_")[0]; parts is filename.split(os.sep)
HiveNameWholeDirectory(parts) == parts[Len(parts) - 1]
HiveName(parts) == Split(parts[Len(parts) - 1], "_")[1]

\* next(index for index, name in enumerate(labels) if name == hive_name):
\* the first index of hive_name, -1 standing for StopIteration.
NextIndex(labels, hive_name) ==
    IF \E i \in 1..Len(labels) : labels[i] = hive_name
    THEN SetMin({i \in 1..Len(labels) : labels[i] = hive_name}) - 1
    ELSE -1

\* The label that Sound.read_sound(filename, labels) of the rfft dataset
\* gives a recording. Its code is not among the sources; this is the label
\* derivation as documented: 0 for an empty label list, else the first index
\* of the hive name, -1 standing for the failure.
ReadSound(labels, hive_name) ==
    IF labels = <<>> THEN 0 ELSE NextIndex(labels, hive_name)

\* The label lines of __getitem__: melspectrogram_dataset.py 34-35 (with the
\* `if self.labels else 0` fallback), periodogram_dataset.py 22-23 (without
\* it), and Sound.read_sound of the rfft dataset.
LabelStep(ds, frame) ==
    LET parts == Split(frame.filename, "/")
    IN  IF Len(parts) < 2 THEN Raise(frame, "IndexError")
        ELSE LET hive_name == HiveName(parts)
                 label == IF ds.cls = Rfft THEN ReadSound(ds.labels, hive_name)
                          ELSE IF ds.cls = Mel /\ ds.labels = <<>> THEN 0
                          ELSE NextIndex(ds.labels, hive_name)
             IN  IF label = -1 THEN Raise(frame, "StopIteration")
                 ELSE [frame EXCEPT !.pc = "extract", !.label = label]

\* librosa.power_to_db(librosa.feature.melspectrogram(...), np.max) of a
\* recording, for the parameters of the dataset.
MelSpectrogramDb(wav, nfft, hop_len, mels) == wav.mel_db

\* periodogram.astype(np.float32) of a 1-D array of magnitudes (integers
\* here); a value on the decibel scale stays as it is written.
PeriodogramAsFloat32(periodogram, scale_db) ==
    [i \in 1..Len(periodogram) |->
        IF scale_db THEN periodogram[i] ELSE Float32(periodogram[i], 1)]

\* The lines after the label: the feature of the recording and the return.
ExtractStep(ds, frame) ==
    LET wav == Disk[frame.filename]
    IN  CASE ds.cls = Mel ->
                [frame EXCEPT !.pc = "done",
                    !.ret = <<MelScale(MelSpectrogramDb(wav, ds.nfft, ds.hop_len, ds.mels)),
                              frame.label>>]
          [] ds.cls = Fft ->
                LET scaled == PeriodogramScale(
                        PeriodogramFft(wav.spectrum, wav.sample_rate, ds.slice_freq))
                IN  IF scaled.err # None THEN Raise(frame, scaled.err)
                    ELSE [frame EXCEPT !.pc = "done",
                                       !.ret = <<scaled.array, frame.label>>]
          [] ds.cls = Rfft ->
                LET periodogram == PeriodogramRfft(wav.spectrum, wav.sample_rate,
                                       ds.scale_db, ds.slice_freq)
                IN  [frame EXCEPT !.pc = "done",
                        !.ret = <<<<PeriodogramAsFloat32(periodogram, ds.scale_db)>>,
                                  frame.label>>]

\* One step of a call from where its frame stands.
Step(ds, frame) ==
    CASE frame.pc = "index"   -> IndexStep(ds, frame)
      [] frame.pc = "label"   -> LabelStep(ds, frame)
      [] frame.pc = "extract" -> ExtractStep(ds, frame)

\* __getitem__(idx) run alone, from call to return or exception.
RECURSIVE Run(_, _)
Run(ds, frame) == IF frame.pc = "done" THEN frame ELSE Run(ds, Step(ds, frame))
GetItem(ds, idx) ==
    LET frame == Run(ds, NewFrame("getitem", idx, idx))
    IN  [ret |-> frame.ret, err |-> frame.err]

\* The dataset object after a step of __getitem__: no line assigns to self.
SelfAfterStepDropsBadFile(ds, frame) ==
    IF frame.err = "FileNotFoundError"
    THEN [ds EXCEPT !.files = SelectSeq(ds.files, LAMBDA f : f # frame.filename)]
    ELSE ds
SelfAfterStep(ds, frame) == ds

Manifests ==
    {<<PathA1, PathB>>, <<PathC, PathA1>>, <<PathA2, PathB>>, <<PathW, PathA1>>}
LabelLists ==
    {<<>>, << <<"A">> >>, << <<"A">>, <<"B">> >>, << <<"B">>, <<"A">>, <<"A">> >>}

\* The dataset objects explored, as their constructors leave them.
Datasets ==
    {[cls |-> Mel, files |-> f, labels |-> l, nfft |-> 4, hop_len |-> 2, mels |-> 2]
        : f \in Manifests, l \in LabelLists}
    \cup {[cls |-> Fft, files |-> f, labels |-> l, slice_freq |-> s]
        : f \in Manifests, l \in LabelLists, s \in {<<>>, <<1, 2>>}}
    \cup {[cls |-> Rfft, files |-> f, labels |-> l, slice_freq |-> s[1], scale_db |-> s[2]]
        : f \in Manifests, l \in LabelLists, s \in {<<<<>>, FALSE>>, <<<<0, 1>>, TRUE>>}}

DatasetInit ==
    /\ self \in Datasets
    /\ workers = [w \in 1..NumWorkers |-> IdleFrame]
    /\ loaders = LoadersIdle
    /\ factory = FactoryIdle
    /\ scaler = ScalerIdle
    /\ perio = PerioIdle

\* Worker w calls self.__getitem__(idx).
CallGetitem(w) ==
    /\ workers[w].pc = "idle"
    /\ \E i \in 0..Len(self.files) :
        workers' = [workers EXCEPT ![w] = NewFrame("getitem", PyInt(i), PyInt(i))]
    /\ UNCHANGED <<self, loaders, factory, scaler, perio>>

\* Worker w calls self.sample(idx) (MelSpectrogramDataset, lines 54-64) and
\* enters __getitem__.
CallSample(w) ==
    /\ workers[w].pc = "idle"
    /\ self.cls = Mel
    /\ \E arg \in {PyNone} \cup {PyInt(i) : i \in 0..Len(self.files)} :
       \E idx \in IF Not(arg) THEN RandomUniform(Len(self.files)) ELSE {arg} :
        workers' = [workers EXCEPT ![w] = NewFrame("sample", arg, idx)]
    /\ UNCHANGED <<self, loaders, factory, scaler, perio>>

\* Worker w runs the next lines of its call.
GetitemStep(w) ==
    /\ workers[w].pc \in {"index", "label", "extract"}
    /\ LET frame == Step(self, workers[w])
       IN  /\ workers' = [workers EXCEPT ![w] = frame]
           /\ self' = SelfAfterStep(self, frame)
    /\ UNCHANGED <<loaders, factory, scaler, perio>>

\* The call of worker w has returned or raised; the worker is free again.
Return(w) ==
    /\ workers[w].pc = "done"
    /\ workers' = [workers EXCEPT ![w] = IdleFrame]
    /\ UNCHANGED <<self, loaders, factory, scaler, perio>>

DatasetNext ==
    \E w \in 1..NumWorkers :
        CallGetitem(w) \/ CallSample(w) \/ GetitemStep(w) \/ Return(w)

SpecDataset == DatasetInit /\ [][DatasetNext]_vars

\* The frame has run the label lines of __getitem__ on a recording that was
\* read.
LabelLinesRun(frame) ==
    /\ frame.pc \in {"extract", "done"}
    /\ frame.filename \in DOMAIN Disk

\* The first '_'-separated token of the parent directory of each recording
\* that has a parent directory.
DirectoryToken ==
    (PathA1 :> <<"A">>) @@ (PathB :> <<"B">>) @@ (PathC :> <<"C">>) @@
    (PathA2 :> <<"A">>)

\* C2: in the mel-spectrogram and the scipy-fft periodogram dataset, once the
\* label lines have run on a recording with a parent directory and the label
\* list is not empty: a directory token that is no label name ends the call
\* with the label-lookup error (StopIteration from next) and without a
\* sample; a token that is a label name gives the first index of that name in
\* the label list, and two calls on the same path agree.
C2_LabelDerivation ==
    self.cls \in {Mel, Fft} /\ self.labels # <<>> =>
        \A w \in 1..NumWorkers :
            LET frame == workers[w]
            IN  LabelLinesRun(frame) /\ frame.filename \in DOMAIN DirectoryToken =>
                LET token == DirectoryToken[frame.filename]
                    found == {i \in 1..Len(self.labels) : self.labels[i] = token}
                IN  /\ found = {} =>
                        /\ frame.pc = "done"
                        /\ frame.err = "StopIteration"
                        /\ frame.ret = <<>>
                    /\ found # {} =>
                        /\ frame.err # "StopIteration"
                        /\ \A i \in found : frame.label + 1 <= i
                        /\ frame.label + 1 \in found
                        /\ frame.pc = "done" /\ frame.err = None =>
                              frame.ret[2] = frame.label
                    /\ \A v \in 1..NumWorkers :
                        LabelLinesRun(workers[v]) /\ workers[v].filename = frame.filename =>
                            /\ workers[v].label = frame.label
                            /\ (workers[v].err = "StopIteration") <=> (frame.err = "StopIteration")

\* While one call on d/C_1/z has failed on its label, another on d/A_1/x of
\* the same dataset has returned index 1 of <<B, A, A>>.
C2_Witness ==
    /\ self.cls = Mel
    /\ self.labels = << <<"B">>, <<"A">>, <<"A">> >>
    /\ \E w, v \in 1..NumWorkers :
        /\ workers[w].filename = PathC
        /\ workers[w].err = "StopIteration"
        /\ workers[v].filename = PathA1
        /\ workers[v].pc = "done"
        /\ workers[v].ret # <<>>
        /\ workers[v].ret[2] = 1

\* C3: with an empty label list, once the label lines have run on a recording
\* with a parent directory, the label is the placeholder 0 and the lookup has
\* not failed, in every dataset wrapper.
C3_EmptyLabelsPlaceholder ==
    self.cls \in {Mel, Fft, Rfft} /\ self.labels = <<>> =>
        \A w \in 1..NumWorkers :
            LET frame == workers[w]
            IN  LabelLinesRun(frame) /\ frame.filename \in DOMAIN DirectoryToken =>
                    /\ frame.label = 0
                    /\ frame.err # "StopIteration"

\* What a finished call gave: the sample returned or the exception raised.
Outcome(frame) == [ret |-> frame.ret, err |-> frame.err]

\* C8: no step of a get changes the dataset object, and every finished get,
\* whatever the other workers are doing or have done (failed gets included),
\* has the outcome that the same get has when run alone.
C8_GetsAreIndependent ==
    /\ [](\A w \in 1..NumWorkers :
            workers[w].pc = "done" => Outcome(workers[w]) = GetItem(self, workers[w].idx))
    /\ [][self' = self]_vars

\* One worker's get has failed on an unreadable file while another worker's
\* get on the other index has returned its sample.
C8_Witness ==
    \E w, v \in 1..NumWorkers :
        /\ workers[w].pc = "done"
        /\ workers[w].err = "FileNotFoundError"
        /\ workers[v].pc = "done"
        /\ workers[v].idx = PyInt(1)
        /\ workers[v].err = None
        /\ workers[v].ret # <<>>

\* C10: sample(idx) retrieves the item at a valid integer index: a supplied
\* index 0 <= idx < length (0 included) gives exactly get(idx), and without
\* an index it gives get(j) for an integer 0 <= j < length.
C10_SampleValidIndex ==
    \A w \in 1..NumWorkers :
        LET frame == workers[w]
            valid(i) == i.type = "int" /\ 0 <= i.val /\ i.val < Len(self.files)
        IN  frame.call = "sample" /\ frame.pc = "done" =>
                /\ valid(frame.arg) => Outcome(frame) = GetItem(self, frame.arg)
                /\ frame.arg = PyNone =>
                    /\ valid(frame.idx)
                    /\ Outcome(frame) = GetItem(self, frame.idx)

====
